---- MODULE Spec2Model ----
(***************************************************************************)
(* A model of fsspec/spec.py: the instance cache of filesystem classes     *)
(* (_Cached), the transaction bookkeeping of AbstractFileSystem and the    *)
(* parts of AbstractBufferedFile they drive.                               *)
(*                                                                         *)
(* Three specifications share the variables:                               *)
(*   Spec      the instance cache, one construction request per step;      *)
(*   ConcSpec  the instance cache, construction requests of several        *)
(*             threads interleaved statement by statement;                 *)
(*   TxSpec    one filesystem handle: transactions, open/close of files    *)
(*             and directory-cache invalidation.                           *)
(***************************************************************************)
EXTENDS Integers, Sequences, FiniteSets, TLC

\* ------------------------------------------------------------------ bounds
MaxHandles == 2      \* handles constructed in one behaviour
MaxForks == 1        \* forks followed into the child
MaxFiles == 2        \* files opened on the handle
MaxPending == 2      \* length of the list of pending invalidations
MaxWritten == 3      \* bytes written to one file
MaxLoc == 4          \* position a seek may reach
MaxOffset == 4       \* size of the start and end given to cat_file

\* ------------------------------------------------------------- the classes
\* Two subclasses of AbstractFileSystem: one keeps the default cachable = True,
\* one overrides it with cachable = False.
Classes == {"CachedFS", "PlainFS"}
cachable(c) == c = "CachedFS"
protocol(c) == IF c = "CachedFS" THEN "cached" ELSE "plain"
_extra_tokenize_attributes(c) == <<>>

\* the two threads that issue construction requests (threading.get_ident())
Threads == {1, 2}

\* The construction requests <<args, kwargs>> a caller makes of class c.
Requests(c) ==
  IF cachable(c)
  THEN { << <<>>, <<>> >>,
         << <<7>>, <<>> >>,
         << <<>>, [skip_instance_cache |-> TRUE] >>,
         << <<>>, [use_listings_cache |-> FALSE] >> }
  ELSE { << <<>>, <<>> >> }

\* The requests the threads of ConcSpec make concurrently.
ConcRequests(c) ==
  IF cachable(c)
  THEN { << <<>>, <<>> >>,
         << <<>>, [skip_instance_cache |-> TRUE] >> }
  ELSE { }

\* fsspec.config.conf: the configured default options of each protocol
conf == [p \in {protocol(c) : c \in Classes} |-> [use_listings_cache |-> TRUE]]

VARIABLES
  \* ---- process and class state (instance cache)
  ospid,       \* os.getpid() of the process the behaviour follows
  _pid,        \* _pid[c]: the pid recorded by class c
  _cache,      \* _cache[c]: token -> handle
  handles,     \* the heap of filesystem handles; a handle is its index
  \* ---- history of the instance cache
  last,        \* the operation that produced the current state
  \* ---- per-thread position inside _Cached.__call__ (ConcSpec)
  pc, frame,
  \* ---- one filesystem handle (TxSpec)
  _intrans,      \* in_transaction
  _transaction,  \* the handle's Transaction object [files |-> <<file, ...>>],
                 \* or NoTransaction for None
  _invalidated_caches_in_transaction,   \* pending_invalidations
  dircache,      \* directory path -> listing
  files,         \* the heap of file objects; a file is its index
  txlast         \* history: the operation that produced the current state

cacheVars == <<ospid, _pid, _cache, handles, last>>
concVars == <<pc, frame>>
txVars == <<_intrans, _transaction, _invalidated_caches_in_transaction,
            dircache, files, txlast>>
vars == <<cacheVars, concVars, txVars>>

\* --------------------------------------------------------- dict helpers
EmptyDict == <<>>
Range(d) == {d[k] : k \in DOMAIN d}
DictGet(d, k, default) == IF k \in DOMAIN d THEN d[k] ELSE default
DictPop(d, k) == [j \in DOMAIN d \ {k} |-> d[j]]
DictUpdate(d, e) == [k \in DOMAIN d \cup DOMAIN e |-> IF k \in DOMAIN e THEN e[k] ELSE d[k]]
DictSet(d, k, v) == [j \in DOMAIN d \cup {k} |-> IF j = k THEN v ELSE d[j]]

\* config.apply_config: the protocol's configured defaults, explicit kwargs win
apply_config(c, kwargs) == DictUpdate(conf[protocol(c)], kwargs)

\* utils.tokenize: a content address of its arguments
tokenize(parts, kwargs) == <<"token", parts, kwargs>>

\* ---------------------------------------------------- _Cached.__call__
\* lines 62-67: the token; it reads the pid the class has recorded
CallTokenNoThread(c, t, args, kwargs) ==
  tokenize(<<c, _pid[c]>> \o args \o _extra_tokenize_attributes(c), kwargs)
CallToken(c, t, args, kwargs) ==
  tokenize(<<c, _pid[c], t>> \o args \o _extra_tokenize_attributes(c), kwargs)

\* line 68
SkipOfAlwaysFalse(kwargs) == FALSE
SkipOf(kwargs) == DictGet(kwargs, "skip_instance_cache", FALSE)

\* lines 69-71: the cache of c after fork detection
ForkCheckedNoClear(c) == _cache[c]
ForkChecked(c) == IF ospid # _pid[c] THEN EmptyDict ELSE _cache[c]

\* line 72
CacheHit(c, token, skip, cache1) == ~skip /\ cachable(c) /\ token \in DOMAIN cache1

\* lines 75-79: the new handle object
NewHandle(c, t, token, args, kwargs) ==
  [ cls |-> c, _fs_token_ |-> token,
    storage_args |-> args, storage_options |-> kwargs,
    born_pid |-> ospid, born_tid |-> t ]

\* the locals of a thread that is not inside _Cached.__call__
IdleFrame == [ cls |-> "" ]

\* The history record of one operation: the request, the handle returned
\* (ret), the number of handles (nh) and the class's cache (before) when it
\* began, whether the pid had changed (forked), the handle from_json started
\* from (src), and whether the operation before it was the same request
\* (again), which returned prior.
NoOp == [ op |-> "none", tid |-> 0, cls |-> "", args |-> <<>>, kwargs |-> <<>>,
          ret |-> 0, nh |-> 0, forked |-> FALSE, skip |-> FALSE,
          before |-> <<>>, src |-> 0, again |-> FALSE, prior |-> 0 ]

\* One whole construction request cls(*args, **kw0) on thread t.
Call(t, c, args, kw0, op, src) ==
  LET kwargs == apply_config(c, kw0)
      token == CallToken(c, t, args, kwargs)
      skip == SkipOf(kwargs)
      kwargs2 == DictPop(kwargs, "skip_instance_cache")
      cache1 == ForkChecked(c)
      hit == CacheHit(c, token, skip, cache1)
      obj == Len(handles) + 1
      ret == IF hit THEN cache1[token] ELSE obj
      cache2 == IF ~hit /\ cachable(c) /\ ~skip THEN DictSet(cache1, token, obj) ELSE cache1
  IN /\ hit \/ Len(handles) < MaxHandles
     /\ handles' = IF hit THEN handles
                   ELSE Append(handles, NewHandle(c, t, token, args, kwargs2))
     /\ _cache' = [_cache EXCEPT ![c] = cache2]
     /\ _pid' = [_pid EXCEPT ![c] = ospid]
     /\ last' = [ op |-> op, tid |-> t, cls |-> c, args |-> args, kwargs |-> kw0,
                  ret |-> ret, nh |-> Len(handles), forked |-> ospid # _pid[c],
                  skip |-> skip, before |-> _cache[c], src |-> src,
                  again |-> /\ last.op \in {"construct", "from_json"}
                            /\ last.tid = t /\ last.cls = c
                            /\ last.args = args /\ last.kwargs = kw0,
                  prior |-> last.ret ]
     /\ UNCHANGED ospid

Construct ==
  \E t \in Threads, c \in Classes : \E r \in Requests(c) :
    /\ Call(t, c, r[1], r[2], "construct", 0)
    /\ UNCHANGED <<concVars, txVars>>

\* AbstractFileSystem.to_json: one flat object, the options next to cls,
\* protocol and args
to_json(h) ==
  DictUpdate([cls |-> handles[h].cls, protocol |-> protocol(handles[h].cls),
              args |-> handles[h].storage_args],
             handles[h].storage_options)

\* AbstractFileSystem.from_json(to_json(h)) on thread t
FromJson ==
  \E t \in Threads, h \in 1..Len(handles) :
    LET dic == to_json(h)
        dic1 == DictPop(dic, "protocol")
        c == dic1.cls
        dic2 == DictPop(dic1, "cls")
        args == DictGet(dic2, "args", <<>>)
        dic3 == DictPop(dic2, "args")
    IN /\ Call(t, c, args, dic3, "from_json", h)
       /\ UNCHANGED <<concVars, txVars>>

\* AbstractFileSystem.clear_instance_cache
ClearInstanceCache ==
  \E c \in Classes :
    /\ _cache' = [_cache EXCEPT ![c] = EmptyDict]
    /\ last' = [NoOp EXCEPT !.op = "clear", !.cls = c]
    /\ UNCHANGED <<ospid, _pid, handles, concVars, txVars>>

\* os.fork(), followed into the child: the child has a copy of the parent's
\* memory and a new pid.
Fork ==
  /\ ospid < MaxForks + 1
  /\ ospid' = ospid + 1
  /\ last' = [NoOp EXCEPT !.op = "fork"]
  /\ UNCHANGED <<_pid, _cache, handles, concVars, txVars>>

\* ===================================================================
\* One filesystem handle: paths, transactions, files (TxSpec)
\* ===================================================================
\* Strings that the code takes apart are sequences of characters.
None == <<"None">>                    \* Python's None where a path is expected
Slash == "/"
protocol_chars == <<"a", "b", "s", "t", "r", "a", "c", "t">>
root_marker == <<>>
PathX == <<"/", "x">>
PathXA == <<"/", "x", "/", "a">>
\* the path callers pass to open(): "abstract:///x/a/"
OpenPaths == { protocol_chars \o <<":", "/", "/">> \o PathXA \o <<"/">> }

startswith(s, prefix) ==
  Len(s) >= Len(prefix) /\ SubSeq(s, 1, Len(prefix)) = prefix
RECURSIVE rstrip(_, _)
rstrip(s, ch) ==
  IF Len(s) > 0 /\ s[Len(s)] = ch THEN rstrip(SubSeq(s, 1, Len(s) - 1), ch) ELSE s
RECURSIVE lstrip(_, _)
lstrip(s, chars) ==
  IF Len(s) > 0 /\ s[1] \in chars THEN lstrip(Tail(s), chars) ELSE s
Chars(s) == {s[i] : i \in 1..Len(s)}
\* s.rsplit(ch, 1)[0] for a string that contains ch
rsplit_head(s, ch) ==
  LET last_at == CHOOSE i \in 1..Len(s) :
                   s[i] = ch /\ \A j \in (i + 1)..Len(s) : s[j] # ch
  IN SubSeq(s, 1, last_at - 1)

\* AbstractFileSystem._strip_protocol for a single path and protocol, on a
\* class whose root_marker is marker
_strip_protocol_cls(marker, path) ==
  LET stripped ==
        IF startswith(path, protocol_chars \o <<":", "/", "/">>)
        THEN SubSeq(path, Len(protocol_chars) + 4, Len(path))
        ELSE IF startswith(path, protocol_chars \o <<":", ":">>)
        THEN SubSeq(path, Len(protocol_chars) + 3, Len(path))
        ELSE path
      trimmed == rstrip(stripped, Slash)
  IN IF trimmed = <<>> THEN marker ELSE trimmed
\* on AbstractFileSystem itself
_strip_protocol(path) == _strip_protocol_cls(root_marker, path)

\* AbstractFileSystem._parent on a class whose root_marker is marker
_parent_cls(marker, path) ==
  LET p == _strip_protocol_cls(marker, rstrip(path, Slash))
  IN IF Slash \in Chars(p)
     THEN marker \o lstrip(rsplit_head(p, Slash), Chars(marker))
     ELSE marker
\* on AbstractFileSystem itself
_parent(path) == _parent_cls(root_marker, path)

\* -------------------------------------------------- the backend's tree
\* The characters the paths are made of, in code-point order
Alphabet ==
  <<"*", ".", "/", ":", "?", "a", "b", "c", "d", "e", "r", "s", "t", "x", "z">>
Ord(ch) == CHOOSE i \in 1..Len(Alphabet) : Alphabet[i] = ch
\* s < t for Python strings
RECURSIVE StrLess(_, _)
StrLess(s, t) ==
  IF t = <<>> THEN FALSE
  ELSE IF s = <<>> THEN TRUE
  ELSE IF s[1] = t[1] THEN StrLess(Tail(s), Tail(t))
  ELSE Ord(s[1]) < Ord(t[1])
\* sorted() of a set of strings
RECURSIVE sorted_descending(_)
sorted_descending(S) ==
  IF S = {} THEN <<>>
  ELSE LET m == CHOOSE x \in S : \A y \in S \ {x} : StrLess(y, x)
       IN <<m>> \o sorted_descending(S \ {m})
RECURSIVE sorted(_)
sorted(S) ==
  IF S = {} THEN <<>>
  ELSE LET m == CHOOSE x \in S : \A y \in S \ {x} : StrLess(x, y)
       IN <<m>> \o sorted(S \ {m})
endswith(s, ch) == Len(s) > 0 /\ s[Len(s)] = ch
\* s.find(ch): the 0-based index of the first ch, -1 if there is none
str_find(s, ch) ==
  IF ch \in Chars(s) THEN (CHOOSE i \in 1..Len(s) :
                             s[i] = ch /\ \A j \in 1..(i - 1) : s[j] # ch) - 1
  ELSE -1
\* s.rindex(ch) for a string that contains ch, 0-based
str_rindex(s, ch) == Len(rsplit_head(s, ch))
\* s.count(ch)
str_count(s, ch) == Cardinality({i \in 1..Len(s) : s[i] = ch})
\* s.replace("//", "/")
RECURSIVE replace_dslash(_)
replace_dslash(s) ==
  IF Len(s) < 2 THEN s
  ELSE IF s[1] = Slash /\ s[2] = Slash
  THEN <<Slash>> \o replace_dslash(SubSeq(s, 3, Len(s)))
  ELSE <<s[1]>> \o replace_dslash(Tail(s))

FileC == <<"/", "a", "/", "b", "/", "c", ".", "t", "x", "t">>
FileD == <<"/", "a", "/", "b", "/", "d", ".", "t", "x", "t">>
FileE == <<"/", "a", "/", "e", ".", "t", "x", "t">>
DirA == <<"/", "a">>
DirB == <<"/", "a", "/", "b">>
Missing == <<"/", "a", "/", "z">>
Qualified(path) == protocol_chars \o <<":", "/", "/">> \o path
\* The trees a backend may hold: the sets of its files
Trees == { {FileC, FileD, FileE}, {FileC, FileE}, {FileE}, {FileC, PathXA} }
\* What a backend's ls() does with the path of a file: it raises, or it
\* returns the entry of the file itself
LsOfFile == {"raises", "self"}

IsFileIn(tree, path) == path \in tree
Below(tree, path) == {f \in tree : startswith(f, path \o <<Slash>>)}
IsDirIn(tree, path) == Below(tree, path) # {}
\* the entry of directory path that file f lies in or is
Child(path, f) ==
  LET rest == SubSeq(f, Len(path) + 2, Len(f))
      k == str_find(rest, Slash)
  IN path \o <<Slash>> \o (IF k < 0 THEN rest ELSE SubSeq(rest, 1, k))
\* A backend's ls(path, detail=True): the entries of a directory
ls(tree, lsfile, path) ==
  IF IsDirIn(tree, path)
  THEN [ raised |-> FALSE,
         out |-> { [ name |-> Child(path, f),
                     type |-> IF Child(path, f) = f THEN "file" ELSE "directory" ]
                   : f \in Below(tree, path) } ]
  ELSE IF IsFileIn(tree, path) /\ lsfile = "self"
  THEN [ raised |-> FALSE, out |-> {[name |-> path, type |-> "file"]} ]
  ELSE [ raised |-> TRUE, out |-> {} ]

\* AbstractFileSystem.info
info(tree, lsfile, path0) ==
  LET path == _strip_protocol(path0)
      NotFound == [ raised |-> TRUE, info |-> [name |-> path, type |-> ""] ]
      Found(o) == [ raised |-> FALSE, info |-> o ]
      l1 == ls(tree, lsfile, _parent(path))
      out0 == {o \in l1.out : rstrip(o.name, Slash) = path}
      l2 == ls(tree, lsfile, path)
      out1 == {o \in l2.out : rstrip(o.name, Slash) = rstrip(path, Slash)}
  IN IF l1.raised THEN NotFound
     ELSE IF out0 # {} THEN Found(CHOOSE o \in out0 : TRUE)
     ELSE IF l2.raised THEN NotFound
     ELSE IF Cardinality(out1) = 1 THEN Found(CHOOSE o \in out1 : TRUE)
     ELSE IF Cardinality(out1) > 1 \/ l2.out # {}
     THEN Found([name |-> rstrip(path, Slash), type |-> "directory"])
     ELSE NotFound
\* AbstractFileSystem.exists, isfile, isdir
exists(tree, lsfile, path) == ~info(tree, lsfile, path).raised
isfile(tree, lsfile, path) ==
  LET i == info(tree, lsfile, path) IN ~i.raised /\ i.info.type = "file"
isdir(tree, lsfile, path) ==
  LET i == info(tree, lsfile, path) IN ~i.raised /\ i.info.type = "directory"

\* AbstractFileSystem.walk with detail=True: the set of the triples
\* <<path, dirs, files>> it yields; maxdepth is <<>> for None, <<n>> for n
RECURSIVE walk(_, _, _, _)
walk(tree, lsfile, path0, maxdepth) ==
  LET path == _strip_protocol(path0)
      listing == ls(tree, lsfile, path)
      full_dirs == {i \in listing.out :
                      i.type = "directory" /\ rstrip(i.name, Slash) # path}
      files_ == listing.out \ full_dirs
      top == {<<path, full_dirs, files_>>}
      stop == maxdepth # <<>> /\ maxdepth[1] - 1 < 1
      deeper == IF maxdepth = <<>> THEN <<>> ELSE <<maxdepth[1] - 1>>
  IN IF listing.raised THEN {}
     ELSE IF stop THEN top
     ELSE top \cup UNION { walk(tree, lsfile, rstrip(d.name, Slash), deeper)
                           : d \in full_dirs }

\* AbstractFileSystem.find with detail=False: the sorted names
find(tree, lsfile, path0, maxdepth, withdirs) ==
  LET path == _strip_protocol(path0)
      w == walk(tree, lsfile, path, maxdepth)
      out == UNION { {i.name : i \in (IF withdirs THEN e[3] \cup e[2] ELSE e[3])}
                     : e \in w }
      out1 == IF out = {} /\ isfile(tree, lsfile, path) THEN {path} ELSE out
  IN sorted(out1)

\* glob.has_magic
has_magic(s) == Chars(s) \cap {"*", "?", "["} # {}
\* The regular expression glob() compiles from a pattern (lines 541-562), as
\* a sequence of <<"lit", c>>, <<"any">> for ".", <<"seg">> for "[^/]*" and
\* <<"all">> for ".*"; the patterns followed hold no bracket and no backslash
RECURSIVE Regex(_)
Regex(s) ==
  IF s = <<>> THEN <<>>
  ELSE IF Len(s) >= 2 /\ s[1] = "*" /\ s[2] = "*"
  THEN <<<<"all">>>> \o Regex(SubSeq(s, 3, Len(s)))
  ELSE IF s[1] = "*" THEN <<<<"seg">>>> \o Regex(Tail(s))
  ELSE IF s[1] = "?" THEN <<<<"any">>>> \o Regex(Tail(s))
  ELSE <<<<"lit", s[1]>>>> \o Regex(Tail(s))
\* pattern.match(s) for "^" + pattern + "$"
RECURSIVE Match(_, _)
Match(re, s) ==
  IF re = <<>> THEN s = <<>>
  ELSE IF re[1][1] = "lit"
  THEN s # <<>> /\ s[1] = re[1][2] /\ Match(Tail(re), Tail(s))
  ELSE IF re[1][1] = "any" THEN s # <<>> /\ Match(Tail(re), Tail(s))
  ELSE IF re[1][1] = "seg"
  THEN Match(Tail(re), s) \/ (s # <<>> /\ s[1] # Slash /\ Match(re, Tail(s)))
  ELSE Match(Tail(re), s) \/ (s # <<>> /\ Match(re, Tail(s)))
\* lines 541-571: the paths of allpaths the pattern matches
Matching(path, allpaths) ==
  LET re == Regex(rstrip(replace_dslash(path), Slash))
      hit(q) == Match(re, rstrip(replace_dslash(q), Slash))
  IN SelectSeq(allpaths, hit)
StrMin(a, b) == IF a < b THEN a ELSE b
\* the result of glob() for a literal pattern without a trailing "/"
LiteralUnstripped(path0, path, found) == IF found THEN <<path0>> ELSE <<>>
Literal(path0, path, found) == IF found THEN <<path>> ELSE <<>>

\* AbstractFileSystem.glob with detail=False
glob(tree, lsfile, path0) ==
  LET ends == endswith(path0, Slash)
      path == _strip_protocol(path0)
      first(ch) == IF str_find(path, ch) >= 0 THEN str_find(path, ch) ELSE Len(path)
      ind == StrMin(first("*"), StrMin(first("?"), first("[")))
      head == SubSeq(path, 1, ind)
      ind2 == str_rindex(head, Slash)
      deep == \E i \in 1..(Len(path) - 1) : path[i] = "*" /\ path[i + 1] = "*"
      depth(rest) == IF deep THEN <<>> ELSE <<str_count(rest, Slash) + 1>>
  IN IF ~has_magic(path)
     THEN IF ends
          THEN Matching(path \o <<Slash, "*">>,
                        find(tree, lsfile, path, <<1>>, TRUE))
          ELSE Literal(path0, path, exists(tree, lsfile, path))
     ELSE IF Slash \in Chars(head)
     THEN Matching(path,
                   find(tree, lsfile, SubSeq(path, 1, ind2 + 1),
                        depth(SubSeq(path, ind2 + 2, Len(path))), TRUE))
     ELSE Matching(path,
                   find(tree, lsfile, <<>>,
                        depth(SubSeq(path, ind + 2, Len(path))), TRUE))

\* The listing a backend's ls() stores in the directory cache for a directory.
Listing(dir) == IF dir = PathX THEN {PathXA} ELSE {dir}
CachedDirs == {PathX}

NoTransaction == <<>>
\* Transaction.__init__
Transaction == [files |-> <<>>]

\* The history record of one operation on the handle: its arguments, the
\* commit and discard calls it made (events), the file whose backend call
\* raised (raised, 0 if none) and whether the backend completed the file
\* (committed); for end_transaction, the pending invalidations it started
\* with (recorded); for an operation on a file, the backend calls it made
\* (calls), whether the file was closed before it (was_closed), the force
\* argument of flush and the bytes returned by read (ret); for find and
\* glob, the path given (arg), the tree the backend holds and what its ls()
\* does with a file (tree, lsfile), and the names returned (ret); for copy,
\* the sources cp_file does not find (gone), the cp_file calls made (calls)
\* and the pairs copied (ret).
TxOp(op, path, f, acarg, events, raised, committed) ==
  [ op |-> op, path |-> path, f |-> f, acarg |-> acarg,
    events |-> events, raised |-> raised, committed |-> committed,
    recorded |-> <<>>, calls |-> <<>>, was_closed |-> FALSE, force |-> FALSE,
    ret |-> <<>>, arg |-> <<>>, tree |-> {}, lsfile |-> "", gone |-> {} ]
NoTxOp == TxOp("none", None, 0, "", <<>>, 0, FALSE)

\* AbstractFileSystem.__init__
HandleInit ==
  /\ _intrans = FALSE
  /\ _transaction = NoTransaction
  /\ _invalidated_caches_in_transaction = <<>>
  /\ dircache = EmptyDict
  /\ files = <<>>
  /\ txlast = NoTxOp

\* _Cached.__init__ for each class, no handle constructed yet
Init ==
  /\ ospid = 1
  /\ _pid = [c \in Classes |-> 1]
  /\ _cache = [c \in Classes |-> EmptyDict]
  /\ handles = <<>>
  /\ last = NoOp
  /\ pc = [t \in Threads |-> "idle"]
  /\ frame = [t \in Threads |-> IdleFrame]
  /\ HandleInit

Next ==
  \/ Construct
  \/ FromJson
  \/ ClearInstanceCache
  \/ Fork

Spec == Init /\ [][Next]_vars

\* ===================================================================
\* _Cached.__call__ statement by statement (ConcSpec): the threads of one
\* process interleave between the statements of lines 61-87.
\* ===================================================================
Goto(t, label) == pc' = [pc EXCEPT ![t] = label]

\* lines 61-68: apply_config, the token, skip popped from kwargs
CBegin(t) ==
  \E c \in Classes : \E r \in ConcRequests(c) :
    LET kwargs == apply_config(c, r[2])
    IN /\ pc[t] \in {"idle", "done"}
       /\ frame' = [frame EXCEPT ![t] =
            [ cls |-> c, args |-> r[1], kw0 |-> r[2],
              token |-> CallToken(c, t, r[1], kwargs),
              skip |-> SkipOf(kwargs),
              kwargs |-> DictPop(kwargs, "skip_instance_cache"),
              pid |-> ospid, obj |-> 0, ret |-> 0, err |-> "" ]]
       /\ Goto(t, "pidcheck")
       /\ UNCHANGED <<cacheVars, txVars>>

\* line 69
CPidCheck(t) ==
  /\ pc[t] = "pidcheck"
  /\ Goto(t, IF ospid # _pid[frame[t].cls] THEN "clear" ELSE "lookup")
  /\ UNCHANGED <<cacheVars, frame, txVars>>

\* line 70
CClear(t) ==
  /\ pc[t] = "clear"
  /\ _cache' = [_cache EXCEPT ![frame[t].cls] = EmptyDict]
  /\ Goto(t, "setpid")
  /\ UNCHANGED <<ospid, _pid, handles, last, frame, txVars>>

\* line 71
CSetPid(t) ==
  /\ pc[t] = "setpid"
  /\ _pid' = [_pid EXCEPT ![frame[t].cls] = ospid]
  /\ Goto(t, "lookup")
  /\ UNCHANGED <<ospid, _cache, handles, last, frame, txVars>>

\* line 72
CLookup(t) ==
  /\ pc[t] = "lookup"
  /\ Goto(t, IF CacheHit(frame[t].cls, frame[t].token, frame[t].skip, _cache[frame[t].cls])
             THEN "get" ELSE "construct")
  /\ UNCHANGED <<cacheVars, frame, txVars>>

\* line 73: the subscript raises KeyError if the entry has gone meanwhile
CGet(t) ==
  /\ pc[t] = "get"
  /\ frame' = [frame EXCEPT ![t] =
       IF frame[t].token \in DOMAIN _cache[frame[t].cls]
       THEN [@ EXCEPT !.ret = _cache[frame[t].cls][frame[t].token]]
       ELSE [@ EXCEPT !.err = "KeyError"]]
  /\ Goto(t, "done")
  /\ UNCHANGED <<cacheVars, txVars>>

\* lines 75-79
CConstruct(t) ==
  /\ pc[t] = "construct"
  /\ Len(handles) < MaxHandles
  /\ handles' = Append(handles, NewHandle(frame[t].cls, t, frame[t].token,
                                          frame[t].args, frame[t].kwargs))
  /\ frame' = [frame EXCEPT ![t].obj = Len(handles) + 1]
  /\ Goto(t, "store")
  /\ UNCHANGED <<ospid, _pid, _cache, last, txVars>>

\* lines 85-87
CStore(t) ==
  /\ pc[t] = "store"
  /\ _cache' = IF cachable(frame[t].cls) /\ ~frame[t].skip
               THEN [_cache EXCEPT ![frame[t].cls] = DictSet(@, frame[t].token, frame[t].obj)]
               ELSE _cache
  /\ frame' = [frame EXCEPT ![t].ret = frame[t].obj]
  /\ Goto(t, "done")
  /\ UNCHANGED <<ospid, _pid, handles, last, txVars>>

\* clear_instance_cache, called by a thread between two requests
CClearInstanceCache(t) ==
  \E c \in Classes :
    /\ pc[t] \in {"idle", "done"}
    /\ _cache' = [_cache EXCEPT ![c] = EmptyDict]
    /\ UNCHANGED <<ospid, _pid, handles, last, concVars, txVars>>

\* os.fork() by thread t, followed into the child, where only the forking
\* thread exists; a thread started there later may get the other ident.
CFork(t) ==
  /\ pc[t] \in {"idle", "done"}
  /\ ospid < MaxForks + 1
  /\ ospid' = ospid + 1
  /\ pc' = [u \in Threads |-> IF u = t THEN pc[t] ELSE "idle"]
  /\ frame' = [u \in Threads |-> IF u = t THEN frame[t] ELSE IdleFrame]
  /\ UNCHANGED <<_pid, _cache, handles, last, txVars>>

ConcNext ==
  \E t \in Threads :
    \/ CBegin(t)
    \/ CPidCheck(t)
    \/ CClear(t)
    \/ CSetPid(t)
    \/ CLookup(t)
    \/ CGet(t)
    \/ CConstruct(t)
    \/ CStore(t)
    \/ CClearInstanceCache(t)
    \/ CFork(t)

ConcSpec == Init /\ [][ConcNext]_vars

\* ===================================================================
\* Operations on the handle (TxSpec)
\* ===================================================================
idleVars == <<cacheVars, concVars>>

\* AbstractFileSystem.transaction (property): the Transaction object, made
\* on first use
transaction(tr) == IF tr = NoTransaction THEN Transaction ELSE tr

\* AbstractFileSystem.start_transaction
StartTransaction ==
  /\ _intrans' = TRUE
  /\ _transaction' = Transaction
  /\ txlast' = TxOp("start_transaction", None, 0, "", <<>>, 0, FALSE)
  /\ UNCHANGED <<_invalidated_caches_in_transaction, dircache, files, idleVars>>

\* AbstractFileSystem.invalidate_cache: the list of pending invalidations
\* after the call
invalidate_cache_unrecorded(intrans, pending, path) == pending
invalidate_cache(intrans, pending, path) ==
  IF intrans THEN Append(pending, path) ELSE pending

\* invalidate_cache called by the user of the handle; close() calls it with
\* the paths of a file
InvalidateCache ==
  \E path \in {None} :
    /\ _intrans => Len(_invalidated_caches_in_transaction) < MaxPending
    /\ _invalidated_caches_in_transaction' =
         invalidate_cache(_intrans, _invalidated_caches_in_transaction, path)
    /\ txlast' = TxOp("invalidate_cache", path, 0, "", <<>>, 0, FALSE)
    /\ UNCHANGED <<_intrans, _transaction, dircache, files, idleVars>>

\* A backend's ls() stores the listing of a directory in the directory cache.
Ls ==
  \E dir \in CachedDirs :
    /\ dircache' = DictSet(dircache, dir, Listing(dir))
    /\ txlast' = TxOp("ls", dir, 0, "", <<>>, 0, FALSE)
    /\ UNCHANGED <<_intrans, _transaction, _invalidated_caches_in_transaction,
                   files, idleVars>>

\* AbstractFileSystem.open, line 979: the default of autocommit
DefaultAutocommitTrue(intrans) == TRUE
DefaultAutocommit(intrans) == ~intrans
\* line 989
StagePrepend(staged, f) == <<f>> \o staged
Stage(staged, f) == Append(staged, f)

\* The block size files are opened with, the content the backend holds for a
\* path opened for reading, and the byte strings handed to write()
BlockSize == 2
Content == <<7, 8, 9>>
Datas == {<<1>>, <<2, 3>>}
\* the arguments given to seek() and read()
SeekLocs == {-1, 0, 2}
ReadLengths == {-1, 0, 2}

\* AbstractBufferedFile.__init__; offset -1 stands for None.  uploaded is the
\* backend's side of the file (the bytes of the chunks it accepted), written
\* the bytes handed to write() so far, refused whether the backend raised
\* on, or did not take, a chunk that held bytes, initiated the number of
\* _initiate_upload calls made.
NewFile(path, mode, autocommit) ==
  [ path |-> path, mode |-> mode, autocommit |-> autocommit, closed |-> FALSE,
    loc |-> 0, buffer |-> <<>>, offset |-> -1, forced |-> FALSE,
    blocksize |-> BlockSize, size |-> IF mode = "rb" THEN Len(Content) ELSE 0,
    uploaded |-> <<>>, written |-> <<>>, refused |-> FALSE,
    initiated |-> 0 ]

Min(a, b) == IF a < b THEN a ELSE b
Max(a, b) == IF a < b THEN b ELSE a

\* What a method of the file did: the file after it, whether it raised, the
\* backend calls it made and the value it returned
Outcome(file, raised, calls, ret) ==
  [ file |-> file, raised |-> raised, calls |-> calls, ret |-> ret ]
Raise(file) == Outcome(file, TRUE, <<>>, <<>>)

\* The outcomes a backend can give an upload: "ok", "initiate raises"
\* (_initiate_upload raises), "chunk raises" (_upload_chunk raises) or
\* "not ready" (_upload_chunk returns False)
Backends == {"ok", "initiate raises", "chunk raises", "not ready"}

\* the backend did not take the chunk
NotTaken(file) == [file EXCEPT !.refused = @ \/ file.buffer # <<>>]
\* lines 1444-1446: the backend took the chunk
TakenOffsetKept(file) ==
  [file EXCEPT !.buffer = <<>>, !.uploaded = @ \o file.buffer]
TakenKeepsBuffer(file) ==
  [file EXCEPT !.offset = @ + Len(file.buffer), !.uploaded = @ \o file.buffer]
Taken(file) ==
  [file EXCEPT !.offset = @ + Len(file.buffer), !.buffer = <<>>,
               !.uploaded = @ \o file.buffer]

\* line 1435: the upload has not been initiated yet
InitiatingAlways(file) == TRUE
Initiating(file) == file.offset = -1

\* AbstractBufferedFile.flush
flush(file, force, backend) ==
  IF file.closed THEN Raise(file)
  ELSE IF force /\ file.forced THEN Raise(file)
  ELSE LET f1 == [file EXCEPT !.forced = @ \/ force]
       IN IF f1.mode \notin {"wb", "ab"} THEN Outcome(f1, FALSE, <<>>, <<>>)
          ELSE IF ~force /\ Len(f1.buffer) < f1.blocksize
          THEN Outcome(f1, FALSE, <<>>, <<>>)
          ELSE LET initiating == Initiating(f1)
                   f2 == IF initiating
                         THEN [f1 EXCEPT !.offset = 0, !.initiated = Min(@ + 1, 2)]
                         ELSE f1
                   init == IF initiating THEN <<<<"_initiate_upload">>>> ELSE <<>>
                   chunk == <<"_upload_chunk", f2.buffer, force>>
               IN IF initiating /\ backend = "initiate raises"
                  THEN Outcome([NotTaken(f2) EXCEPT !.closed = TRUE],
                               TRUE, init, <<>>)
                  ELSE IF backend = "chunk raises"
                  THEN Outcome(NotTaken(f2), TRUE, Append(init, chunk), <<>>)
                  ELSE IF backend = "not ready"
                  THEN Outcome(NotTaken(f2), FALSE, Append(init, chunk), <<>>)
                  ELSE Outcome(Taken(f2), FALSE, Append(init, chunk), <<>>)

\* lines 1394-1399: the states in which write() raises
WriteRaisesUnlessForced(file) == file.mode \notin {"wb", "ab"} \/ file.closed
WriteRaises(file) ==
  file.mode \notin {"wb", "ab"} \/ file.closed \/ file.forced

\* line 1402: the buffer has reached the block size
FullOnlyAbove(file) == Len(file.buffer) > file.blocksize
Full(file) == Len(file.buffer) >= file.blocksize

\* AbstractBufferedFile.write
write(file, data, backend) ==
  IF WriteRaises(file) THEN Raise(file)
  ELSE LET out == Len(data)
           f1 == [file EXCEPT !.buffer = @ \o data, !.loc = @ + out,
                              !.written = @ \o data]
       IN IF Full(f1)
          THEN LET r == flush(f1, FALSE, backend)
               IN Outcome(r.file, r.raised, r.calls, out)
          ELSE Outcome(f1, FALSE, <<>>, out)

\* AbstractBufferedFile.seek
seek(file, loc, whence) ==
  IF file.mode # "rb" THEN Raise(file)
  ELSE IF whence \notin {0, 1, 2} THEN Raise(file)
  ELSE LET nloc == IF whence = 0 THEN loc
                   ELSE IF whence = 1 THEN file.loc + loc
                   ELSE file.size + loc
       IN IF nloc < 0 THEN Raise(file)
          ELSE Outcome([file EXCEPT !.loc = nloc], FALSE, <<>>, nloc)

\* The read cache's _fetch(start, end): the bytes of the backend's content
\* from start up to end, cut at the end of the file
_fetch(start, end) ==
  SubSeq(Content, Max(start, 0) + 1, Min(end, Len(Content)))

\* AbstractBufferedFile.read; length -1 also stands for None
read(file, length0) ==
  IF file.mode # "rb" THEN Raise(file)
  ELSE LET length == IF length0 < 0 THEN file.size - file.loc ELSE length0
       IN IF file.closed THEN Raise(file)
          ELSE IF length = 0 THEN Outcome(file, FALSE, <<>>, <<>>)
          ELSE LET out == _fetch(file.loc, file.loc + length)
               IN Outcome([file EXCEPT !.loc = @ + Len(out)], FALSE,
                          <<<<"_fetch", file.loc, file.loc + length>>>>, out)

\* AbstractFileSystem.open in a binary mode; acarg is the autocommit argument
Open ==
  \E path0 \in OpenPaths, mode \in {"rb", "wb"},
     acarg \in {"default", "true", "false"} :
    LET path == _strip_protocol(path0)
        ac == IF acarg = "default" THEN DefaultAutocommit(_intrans) ELSE acarg = "true"
        f == Len(files) + 1
        staging == ~ac /\ mode # "rb"
    IN /\ Len(files) < MaxFiles
       /\ files' = Append(files, NewFile(path, mode, ac))
       /\ _transaction' = IF staging
                          THEN [transaction(_transaction) EXCEPT !.files = Stage(@, f)]
                          ELSE _transaction
       /\ txlast' = TxOp("open", path, f, acarg, <<>>, 0, FALSE)
       /\ UNCHANGED <<_intrans, _invalidated_caches_in_transaction, dircache, idleVars>>

\* line 1567
AlreadyClosedNever(file) == FALSE
AlreadyClosed(file) == file.closed

\* AbstractBufferedFile.close.  A final chunk that the backend takes
\* completes the file if autocommit is set.
Close ==
  \E f \in 1..Len(files), backend \in Backends :
    LET file == files[f]
        flushing == file.mode # "rb" /\ ~file.forced
        r == IF AlreadyClosed(file) THEN Outcome(file, FALSE, <<>>, <<>>)
             ELSE IF file.mode = "rb" THEN Outcome(file, FALSE, <<>>, <<>>)
             ELSE IF flushing THEN flush(file, TRUE, backend)
             ELSE Outcome(file, FALSE, <<>>, <<>>)
        taken == flushing /\ ~AlreadyClosed(file) /\ ~r.raised /\ backend # "not ready"
        invalidating == ~AlreadyClosed(file) /\ file.mode # "rb" /\ ~r.raised
        pending1 == invalidate_cache(_intrans, _invalidated_caches_in_transaction, file.path)
        pending2 == invalidate_cache(_intrans, pending1, _parent(file.path))
    IN /\ txlast' = [TxOp("close", file.path, f, "", <<>>,
                          IF r.raised THEN f ELSE 0,
                          ~AlreadyClosed(file) /\ taken /\ file.autocommit)
                       EXCEPT !.calls = r.calls, !.was_closed = file.closed]
       /\ IF r.raised \/ AlreadyClosed(file)
          THEN /\ files' = [files EXCEPT ![f] = r.file]
               /\ UNCHANGED _invalidated_caches_in_transaction
          ELSE /\ files' = [files EXCEPT ![f] = [r.file EXCEPT !.closed = TRUE]]
               /\ IF invalidating
                  THEN /\ Len(pending2) <= MaxPending
                       /\ _invalidated_caches_in_transaction' = pending2
                  ELSE UNCHANGED _invalidated_caches_in_transaction
       /\ UNCHANGED <<_intrans, _transaction, dircache, idleVars>>

\* AbstractBufferedFile.write called by the user of a file
Write ==
  \E f \in 1..Len(files), data \in Datas, backend \in Backends :
    LET r == write(files[f], data, backend)
    IN /\ Len(r.file.written) <= MaxWritten
       /\ files' = [files EXCEPT ![f] = r.file]
       /\ txlast' = [TxOp("write", files[f].path, f, "", <<>>,
                          IF r.raised THEN f ELSE 0, FALSE)
                       EXCEPT !.calls = r.calls]
       /\ UNCHANGED <<_intrans, _transaction, _invalidated_caches_in_transaction,
                      dircache, idleVars>>

\* AbstractBufferedFile.flush called by the user of a file
Flush ==
  \E f \in 1..Len(files), force \in BOOLEAN, backend \in Backends :
    LET r == flush(files[f], force, backend)
    IN /\ files' = [files EXCEPT ![f] = r.file]
       /\ txlast' = [TxOp("flush", files[f].path, f, "", <<>>,
                          IF r.raised THEN f ELSE 0, FALSE)
                       EXCEPT !.calls = r.calls, !.force = force]
       /\ UNCHANGED <<_intrans, _transaction, _invalidated_caches_in_transaction,
                      dircache, idleVars>>

\* AbstractBufferedFile.seek
Seek ==
  \E f \in 1..Len(files), loc \in SeekLocs, whence \in 0..2 :
    LET r == seek(files[f], loc, whence)
    IN /\ r.file.loc <= MaxLoc
       /\ files' = [files EXCEPT ![f] = r.file]
       /\ txlast' = TxOp("seek", files[f].path, f, "", <<>>,
                         IF r.raised THEN f ELSE 0, FALSE)
       /\ UNCHANGED <<_intrans, _transaction, _invalidated_caches_in_transaction,
                      dircache, idleVars>>

\* AbstractBufferedFile.read
Read ==
  \E f \in 1..Len(files), length \in ReadLengths :
    LET r == read(files[f], length)
    IN /\ files' = [files EXCEPT ![f] = r.file]
       /\ txlast' = [TxOp("read", files[f].path, f, "", <<>>,
                          IF r.raised THEN f ELSE 0, FALSE)
                       EXCEPT !.calls = r.calls, !.ret = r.ret]
       /\ UNCHANGED <<_intrans, _transaction, _invalidated_caches_in_transaction,
                      dircache, idleVars>>

\* bytes.find(sub): the 0-based index of the first occurrence, -1 if none
bytes_find(part, sub) ==
  LET at == {i \in 0..(Len(part) - Len(sub)) :
               SubSeq(part, i + 1, i + Len(sub)) = sub}
  IN IF at = {} THEN -1 ELSE CHOOSE i \in at : \A j \in at : i <= j

\* AbstractBufferedFile.readuntil: the loop of lines 1516-1526, out being the
\* bytes collected so far; n is blocks or self.blocksize
RECURSIVE ReadUntilLoop(_, _, _, _)
ReadUntilLoop(file, char, n, out) ==
  LET start == file.loc
      r == read(file, n)
      part == r.ret
      found == bytes_find(part, char)
  IN IF r.raised THEN Raise(file)
     ELSE IF Len(part) = 0 THEN Outcome(r.file, FALSE, <<>>, out)
     ELSE IF found > -1
     THEN Outcome(seek(r.file, start + found + Len(char), 0).file, FALSE, <<>>,
                  out \o SubSeq(part, 1, found + Len(char)))
     ELSE ReadUntilLoop(r.file, char, n, out \o part)
\* blocks is <<>> for None, <<n>> for n
readuntil(file, char, blocks) ==
  ReadUntilLoop(file, char,
                IF blocks = <<>> \/ blocks[1] = 0 THEN file.blocksize ELSE blocks[1],
                <<>>)

\* the delimiters and the blocks arguments given to readuntil()
Delimiters == { <<8>>, <<7, 8>>, <<8, 9>>, <<5>> }
Blocks == { <<>>, <<1>>, <<3>> }
ReadUntil ==
  \E f \in 1..Len(files), char \in Delimiters, blocks \in Blocks :
    \E r \in {readuntil(files[f], char, blocks)} :
      /\ files' = [files EXCEPT ![f] = r.file]
      /\ txlast' = [TxOp("readuntil", files[f].path, f, "", <<>>,
                         IF r.raised THEN f ELSE 0, FALSE)
                      EXCEPT !.arg = <<char, blocks>>, !.ret = r.ret]
      /\ UNCHANGED <<_intrans, _transaction, _invalidated_caches_in_transaction,
                     dircache, idleVars>>

\* Transaction.complete: commit the staged files in list order; when a commit
\* raises, discard the files after it and let the exception through.  k is
\* the position of the first file whose commit raises, 0 if none does.  The
\* events are <<what, file>>.
complete(staged, k) ==
  [ i \in 1..Len(staged) |->
      IF k = 0 \/ i < k THEN <<"commit", staged[i]>>
      ELSE IF i = k THEN <<"commit raised", staged[i]>>
      ELSE <<"discard", staged[i]>> ]

\* The drain of lines 244-245: a for loop over the list itself, calling
\* invalidate_cache on the path at position i; applied are the paths it was
\* called with.  The loop has ended when i is past the end of the list; it
\* is followed for DrainLimit rounds.
DrainLimit == 2 * MaxPending + 2
RECURSIVE Drain(_, _, _, _)
Drain(intrans, pending, i, applied) ==
  IF i > Len(pending)
  THEN [ pending |-> pending, applied |-> applied, ended |-> TRUE ]
  ELSE IF i > DrainLimit
  THEN [ pending |-> pending, applied |-> applied, ended |-> FALSE ]
  ELSE Drain(intrans, invalidate_cache(intrans, pending, pending[i]), i + 1,
             Append(applied, pending[i]))

\* Transaction.complete leaves _intrans cleared
CompleteKeeps(intrans) == intrans
CompleteClears(intrans) == FALSE

\* list.clear()
clear(list) == <<>>

\* AbstractFileSystem.end_transaction.  Transaction.complete empties the list
\* of staged files and clears _intrans whether or not a commit raised; an
\* exception of complete leaves end_transaction at line 241.
EndTransaction ==
  LET tx == transaction(_transaction)
      staged == tx.files
  IN \E k \in 0..Len(staged) :
       LET events == complete(staged, k)
           intrans1 == CompleteClears(_intrans)
           drained == Drain(intrans1, _invalidated_caches_in_transaction, 1, <<>>)
       IN /\ _intrans' = intrans1
          /\ txlast' = [TxOp("end_transaction", None, 0, "", events,
                             IF k = 0 THEN 0 ELSE staged[k], FALSE)
                          EXCEPT !.recorded = _invalidated_caches_in_transaction,
                                 !.calls = IF k = 0 THEN drained.applied ELSE <<>>,
                                 !.ret = IF k = 0 /\ ~drained.ended
                                         THEN <<"loops">> ELSE <<>>]
          /\ IF k = 0
             THEN /\ _transaction' = NoTransaction
                  /\ _invalidated_caches_in_transaction' =
                       IF drained.ended THEN clear(drained.pending)
                       ELSE drained.pending
             ELSE /\ _transaction' = [tx EXCEPT !.files = <<>>]
                  /\ UNCHANGED _invalidated_caches_in_transaction
          /\ UNCHANGED <<dircache, files, idleVars>>

TxNext ==
  \/ StartTransaction
  \/ EndTransaction
  \/ InvalidateCache
  \/ Ls
  \/ Open
  \/ Close

TxSpec == Init /\ [][TxNext]_vars

\* ===================================================================
\* One buffered file and its user (FileSpec)
\* ===================================================================
OpenOne == files = <<>> /\ Open

FileNext ==
  \/ OpenOne
  \/ Write
  \/ Flush
  \/ Seek
  \/ Read
  \/ Close
  \/ ReadUntil

FileSpec == Init /\ [][FileNext]_vars

\* ===================================================================
\* Listing and reading through the handle (PathSpec)
\* ===================================================================
\* find, glob, cat_file and copy are functions of their arguments and of what
\* the backend holds, so one call is followed from the initial state.
FirstCall == txlast = NoTxOp

StarStarTxt == <<"/", "a", "/", "*", "*", "/", "*", ".", "t", "x", "t">>
StarTxt == <<"/", "a", "/", "*", "/", "*", ".", "t", "x", "t">>
QuestionB == <<"/", "a", "?", "b", "/", "*", "*">>
\* the paths given to find() and the patterns given to glob()
FindPaths ==
  { DirA, DirA \o <<Slash>>, DirB, FileE, FileC, Missing, PathX,
    Qualified(DirA), Qualified(FileE) }
GlobPatterns ==
  { StarStarTxt, StarTxt, DirA \o <<Slash, "*">>, DirA \o <<Slash, "?", ".", "t", "x", "t">>,
    <<"*">>, DirB \o <<Slash>>, FileE, FileC, DirB, Missing, PathXA,
    Qualified(FileE), Qualified(StarTxt), QuestionB }

\* AbstractFileSystem.find(path), maxdepth=None, withdirs=False
Find ==
  \E tree \in Trees, lsfile \in LsOfFile, path \in FindPaths :
    /\ FirstCall
    /\ txlast' = [TxOp("find", None, 0, "", <<>>, 0, FALSE)
                    EXCEPT !.arg = path, !.tree = tree, !.lsfile = lsfile,
                           !.ret = find(tree, lsfile, path, <<>>, FALSE)]
    /\ UNCHANGED <<_intrans, _transaction, _invalidated_caches_in_transaction,
                   dircache, files, idleVars>>

\* AbstractFileSystem.glob(path)
Glob ==
  \E tree \in Trees, lsfile \in LsOfFile, path \in GlobPatterns :
    /\ FirstCall
    /\ txlast' = [TxOp("glob", None, 0, "", <<>>, 0, FALSE)
                    EXCEPT !.arg = path, !.tree = tree, !.lsfile = lsfile,
                           !.ret = glob(tree, lsfile, path)]
    /\ UNCHANGED <<_intrans, _transaction, _invalidated_caches_in_transaction,
                   dircache, files, idleVars>>

\* AbstractFileSystem.cat_file of a path whose content is Content; start and
\* end are <<>> for None, <<n>> for n
cat_file(path, start, end) ==
  LET f0 == NewFile(_strip_protocol(path), "rb", TRUE)
      f1 == IF start = <<>> THEN f0
            ELSE IF start[1] >= 0 THEN seek(f0, start[1], 0).file
            ELSE seek(f0, Max(0, f0.size + start[1]), 0).file
      end1 == IF end # <<>> /\ end[1] < 0 THEN f1.size + end[1]
              ELSE IF end # <<>> THEN end[1] ELSE 0
  IN IF end # <<>> THEN read(f1, end1 - f1.loc).ret ELSE read(f1, -1).ret

Offsets == {<<>>} \cup {<<n>> : n \in (0 - MaxOffset)..MaxOffset}

CatFile ==
  \E start \in Offsets, end \in Offsets :
    /\ FirstCall
    /\ txlast' = [TxOp("cat_file", PathXA, 0, "", <<>>, 0, FALSE)
                    EXCEPT !.arg = <<start, end>>,
                           !.ret = cat_file(PathXA, start, end)]
    /\ UNCHANGED <<_intrans, _transaction, _invalidated_caches_in_transaction,
                   dircache, files, idleVars>>

\* AbstractFileSystem.expand_path for one path without magic characters,
\* maxdepth=None: the set collected at lines 873-878
ExpandLiteral(tree, lsfile, p, recursive) ==
  LET rec == IF recursive THEN Range(find(tree, lsfile, p, <<>>, TRUE)) ELSE {}
  IN IF p \notin rec /\ (~recursive \/ exists(tree, lsfile, p))
     THEN rec \cup {p} ELSE rec
\* AbstractFileSystem.expand_path for one path, maxdepth=None
expand_path(tree, lsfile, path, recursive) ==
  LET p == _strip_protocol(path)
      bit == Range(glob(tree, lsfile, p))
      inner == UNION { ExpandLiteral(tree, lsfile, q, recursive) : q \in bit }
      out == IF ~has_magic(p) THEN ExpandLiteral(tree, lsfile, p, recursive)
             ELSE IF recursive /\ inner # {} THEN bit \cup inner
             ELSE IF recursive THEN {}
             ELSE bit
  IN [ raised |-> out = {}, out |-> sorted(out) ]

\* utils.other_paths: one destination per source, in the same order
basename(path) ==
  IF Slash \in Chars(path)
  THEN SubSeq(path, str_rindex(path, Slash) + 2, Len(path)) ELSE path
other_paths(paths, path2) ==
  [ i \in 1..Len(paths) |-> path2 \o <<Slash>> \o basename(paths[i]) ]

\* lines 838-841
OnErrorRaise(on_error, recursive) ==
  IF on_error = "None" THEN "raise" ELSE on_error
OnError(on_error, recursive) ==
  IF on_error = "None" /\ recursive THEN "ignore"
  ELSE IF on_error = "None" THEN "raise"
  ELSE on_error

\* lines 845-850: the loop over the pairs from pair i on; cp_file raises
\* FileNotFoundError for the sources in gone
RECURSIVE CopyLoop(_, _, _, _, _)
CopyLoop(pairs, i, on_error, gone, done) ==
  IF i > Len(pairs) THEN done
  ELSE LET called == [done EXCEPT !.calls = Append(@, pairs[i])]
       IN IF pairs[i][1] \in gone
          THEN IF on_error = "raise" THEN [called EXCEPT !.raised = TRUE]
               ELSE CopyLoop(pairs, i + 1, on_error, gone, called)
          ELSE CopyLoop(pairs, i + 1, on_error, gone,
                        [called EXCEPT !.ret = Append(@, pairs[i])])

\* AbstractFileSystem.copy from line 844 on, e being what expand_path gave
CopyExpanded(e, path2, on_error, gone) ==
  LET dests == other_paths(e.out, path2)
      pairs == [ i \in 1..Len(e.out) |-> <<e.out[i], dests[i]>> ]
  IN IF e.raised THEN Raise(<<>>)
     ELSE CopyLoop(pairs, 1, on_error, gone, Outcome(<<>>, FALSE, <<>>, <<>>))

\* AbstractFileSystem.copy
copy(tree, lsfile, path1, path2, recursive, on_error, gone) ==
  CopyExpanded(expand_path(tree, lsfile, path1, recursive), path2,
               OnError(on_error, recursive), gone)

CopySources == {DirA, FileE, StarTxt, Missing}
\* the sources for which the backend's cp_file may raise FileNotFoundError
MayBeGone == {DirA, DirB, FileC, FileE}
Copy ==
  \E tree \in Trees, lsfile \in LsOfFile, path1 \in CopySources,
     recursive \in BOOLEAN :
    \E e \in {expand_path(tree, lsfile, path1, recursive)} :
      \E on_error \in {"None", "raise", "ignore"}, gone \in SUBSET MayBeGone :
        \E r \in {CopyExpanded(e, PathX, OnError(on_error, recursive), gone)} :
          /\ FirstCall
          /\ txlast' = [TxOp("copy", None, 0, "", <<>>, IF r.raised THEN 1 ELSE 0, FALSE)
                          EXCEPT !.arg = <<path1, recursive, on_error>>,
                                 !.tree = tree, !.lsfile = lsfile, !.gone = gone,
                                 !.calls = r.calls, !.ret = r.ret]
          /\ UNCHANGED <<_intrans, _transaction, _invalidated_caches_in_transaction,
                         dircache, files, idleVars>>

\* reversed() of a list
reversed_not(s) == s
reversed(s) == [ i \in 1..Len(s) |-> s[Len(s) + 1 - i] ]
\* AbstractFileSystem.rm from line 913 on, e being what expand_path gave: the
\* rm_file calls made, in order
RmExpanded(e) ==
  IF e.raised THEN Raise(<<>>)
  ELSE Outcome(<<>>, FALSE, reversed(e.out), <<>>)
\* AbstractFileSystem.rm, maxdepth=None
rm(tree, lsfile, path, recursive) ==
  RmExpanded(expand_path(tree, lsfile, path, recursive))

RmPaths == {DirA, DirB, FileE, StarTxt, DirA \o <<Slash, "*">>, Missing}
Rm ==
  \E tree \in Trees, lsfile \in LsOfFile, path \in RmPaths, recursive \in BOOLEAN :
    \E e \in {expand_path(tree, lsfile, path, recursive)} :
      \E r \in {RmExpanded(e)} :
        /\ FirstCall
        /\ txlast' = [TxOp("rm", None, 0, "", <<>>, IF r.raised THEN 1 ELSE 0, FALSE)
                        EXCEPT !.arg = <<path, recursive>>,
                               !.tree = tree, !.lsfile = lsfile,
                               !.calls = r.calls, !.ret = e.out]
        /\ UNCHANGED <<_intrans, _transaction, _invalidated_caches_in_transaction,
                       dircache, files, idleVars>>

\* AbstractFileSystem.expand_path(path, recursive) for one path
ExpandPaths ==
  {DirA, FileE, Missing, StarTxt, DirA \o <<Slash, "*">>, Qualified(DirA)}
ExpandPath ==
  \E tree \in Trees, lsfile \in LsOfFile, path \in ExpandPaths, recursive \in BOOLEAN :
    \E e \in {expand_path(tree, lsfile, path, recursive)} :
      /\ FirstCall
      /\ txlast' = [TxOp("expand_path", None, 0, "", <<>>,
                         IF e.raised THEN 1 ELSE 0, FALSE)
                      EXCEPT !.arg = <<path, recursive>>,
                             !.tree = tree, !.lsfile = lsfile, !.ret = e.out]
      /\ UNCHANGED <<_intrans, _transaction, _invalidated_caches_in_transaction,
                     dircache, files, idleVars>>

\* utils.read_block without a delimiter: move to offset, read length bytes
utils_read_block_noseek(f, offset, length) == read(f, length).ret
utils_read_block(f, offset, length) ==
  read(seek(f, offset, 0).file, length).ret
\* AbstractFileSystem.read_block of a path whose content is Content, with an
\* integer length and no delimiter
read_block(fn, offset, length0) ==
  LET f == NewFile(_strip_protocol(fn), "rb", TRUE)
      size == f.size
      length == IF offset + length0 > size THEN size - offset ELSE length0
  IN utils_read_block(f, offset, length)

ReadBlock ==
  \E offset \in 0..MaxOffset, length \in 0..MaxOffset :
    /\ FirstCall
    /\ txlast' = [TxOp("read_block", PathXA, 0, "", <<>>, 0, FALSE)
                    EXCEPT !.arg = <<offset, length>>,
                           !.ret = read_block(PathXA, offset, length)]
    /\ UNCHANGED <<_intrans, _transaction, _invalidated_caches_in_transaction,
                   dircache, files, idleVars>>

\* The root markers of the filesystem classes ("" on AbstractFileSystem, "/"
\* on the classes that override it) and the paths given to _parent
RootMarkers == { <<>>, <<Slash>> }
ParentPaths ==
  { <<>>, <<"a">>, <<"a", "/", "b">>, DirA, DirB, DirB \o <<Slash>>, FileC,
    <<Slash>>, Qualified(DirB), Qualified(<<"a", "/", "b">>),
    protocol_chars \o <<":", ":", "a">> }
\* AbstractFileSystem._parent(path)
Parent ==
  \E marker \in RootMarkers, path \in ParentPaths :
    /\ FirstCall
    /\ txlast' = [TxOp("_parent", path, 0, "", <<>>, 0, FALSE)
                    EXCEPT !.arg = marker, !.ret = _parent_cls(marker, path)]
    /\ UNCHANGED <<_intrans, _transaction, _invalidated_caches_in_transaction,
                   dircache, files, idleVars>>

\* AbstractFileSystem.walk(path), maxdepth=None, detail=True: ret holds the
\* set of the triples yielded
WalkPaths == {DirA, DirB, FileE, Missing, Qualified(Missing)}
Walk ==
  \E tree \in Trees, lsfile \in LsOfFile, path \in WalkPaths :
    /\ FirstCall
    /\ txlast' = [TxOp("walk", None, 0, "", <<>>, 0, FALSE)
                    EXCEPT !.arg = path, !.tree = tree, !.lsfile = lsfile,
                           !.ret = <<walk(tree, lsfile, path, <<>>)>>]
    /\ UNCHANGED <<_intrans, _transaction, _invalidated_caches_in_transaction,
                   dircache, files, idleVars>>

\* the backend's files after cp_file has copied the pairs: a copied file is
\* at its destination as well
AfterCopy(tree, copied) ==
  tree \cup { copied[i][2] : i \in {j \in 1..Len(copied) : copied[j][1] \in tree} }
\* lines 885-886: the calls of copy, then the calls of rm
MvCallsRmFirst(copied, removed) == removed \o copied
MvCalls(copied, removed) == copied \o removed
\* AbstractFileSystem.mv, maxdepth=None, e being what copy's expand_path gave
\* and e2 what rm's gave: the cp_file and rm_file calls made, in order, and
\* the pairs copied
MvExpanded(e, e2, path2, recursive, gone) ==
  LET c == CopyExpanded(e, path2, OnError("None", recursive), gone)
      cp == [ i \in 1..Len(c.calls) |-> <<"cp_file", c.calls[i][1], c.calls[i][2]>> ]
      r == RmExpanded(e2)
      rmf == [ i \in 1..Len(r.calls) |-> <<"rm_file", r.calls[i]>> ]
  IN IF c.raised THEN Outcome(<<>>, TRUE, cp, c.ret)
     ELSE Outcome(<<>>, r.raised, MvCalls(cp, rmf), c.ret)

Mv ==
  \E tree \in Trees, lsfile \in LsOfFile, path1 \in CopySources,
     recursive \in BOOLEAN :
    \E e \in {expand_path(tree, lsfile, path1, recursive)} :
      \E gone \in SUBSET MayBeGone :
        \E c \in {CopyExpanded(e, PathX, OnError("None", recursive), gone)} :
          \E e2 \in {expand_path(AfterCopy(tree, c.ret), lsfile, path1, recursive)} :
            \E r \in {MvExpanded(e, e2, PathX, recursive, gone)} :
              /\ FirstCall
              /\ txlast' = [TxOp("mv", None, 0, "", <<>>, IF r.raised THEN 1 ELSE 0, FALSE)
                              EXCEPT !.arg = <<path1, recursive>>,
                                     !.tree = tree, !.lsfile = lsfile, !.gone = gone,
                                     !.calls = r.calls, !.ret = r.ret]
              /\ UNCHANGED <<_intrans, _transaction, _invalidated_caches_in_transaction,
                             dircache, files, idleVars>>

PathNext ==
  \/ Find
  \/ Glob
  \/ CatFile
  \/ Copy
  \/ Rm
  \/ ExpandPath
  \/ ReadBlock
  \/ Parent
  \/ Walk
  \/ Mv

PathSpec == Init /\ [][PathNext]_vars

\* ===================================================================
\* Claims about the instance cache (Spec)
\* ===================================================================
IsCall == last.op \in {"construct", "from_json"}
RequestedSkip == DictGet(apply_config(last.cls, last.kwargs), "skip_instance_cache", FALSE)
NewlyConstructed == last.ret = last.nh + 1 /\ Len(handles) = last.nh + 1

\* C1: for a cachable class, two constructions on one thread of one process
\* (the original one or a forked child) with equal args and equal options,
\* without skip_instance_cache and with no clear_instance_cache between them,
\* return the same handle.  Stated for two consecutive requests.
C1_SameHandleTwice ==
  (IsCall /\ last.again /\ cachable(last.cls) /\ ~RequestedSkip)
    => last.ret = last.prior

\* C2 (as claimed): a construction request without skip_instance_cache that
\* finds the pid changed returns a newly constructed handle that the parent
\* had not cached, records the current pid, and leaves the class's cache
\* holding exactly that one handle.
C2_ForkLeavesOneHandle ==
  (IsCall /\ last.forked /\ ~RequestedSkip)
    => /\ NewlyConstructed
       /\ last.ret \notin Range(last.before)
       /\ _pid[last.cls] = ospid
       /\ Cardinality(DOMAIN _cache[last.cls]) = 1
       /\ Range(_cache[last.cls]) = {last.ret}

\* C2 (amended): as above, where the cache holds exactly the one new handle
\* if the class is cachable and is empty if it is not.
C2_ForkClearsCache ==
  (IsCall /\ last.forked /\ ~RequestedSkip)
    => /\ NewlyConstructed
       /\ last.ret \notin Range(last.before)
       /\ _pid[last.cls] = ospid
       /\ IF cachable(last.cls)
          THEN /\ Cardinality(DOMAIN _cache[last.cls]) = 1
               /\ Range(_cache[last.cls]) = {last.ret}
          ELSE _cache[last.cls] = EmptyDict

\* a child constructs, without skip, a handle the parent had cached with the
\* same args and options
C2_Witness ==
  /\ IsCall /\ last.forked /\ ~RequestedSkip /\ cachable(last.cls)
  /\ \E h \in Range(last.before) :
       /\ handles[h].storage_args = last.args
       /\ handles[h].storage_options = handles[last.ret].storage_options

\* C4: a construction with skip_instance_cache=True, or of a class that is
\* not cachable, returns a newly constructed handle, and leaves the class's
\* cache as it was when the pid has not changed.
C4_SkipBypasses ==
  (IsCall /\ (RequestedSkip \/ ~cachable(last.cls)))
    => /\ NewlyConstructed
       /\ last.ret \notin Range(last.before)
       /\ ~last.forked => _cache[last.cls] = last.before

\* a skip construction while a handle with equal args and options is cached
C4_Witness ==
  /\ IsCall /\ RequestedSkip /\ ~last.forked /\ cachable(last.cls)
  /\ \E h \in Range(last.before) :
       /\ handles[h].storage_args = last.args
       /\ handles[h].storage_options = handles[last.ret].storage_options

\* C5: from_json(h.to_json()), run in the process and on the thread that
\* created h, returns a handle whose token equals the token of h.
C5_JsonRoundTrip ==
  (/\ last.op = "from_json"
   /\ handles[last.src].born_pid = ospid
   /\ handles[last.src].born_tid = last.tid)
    => handles[last.ret]._fs_token_ = handles[last.src]._fs_token_

\* ===================================================================
\* Claims about concurrent construction (ConcSpec)
\* ===================================================================
Returned(t) == pc[t] = "done" /\ frame[t].ret # 0
SameRequest(t, u) ==
  /\ frame[t].cls = frame[u].cls /\ frame[t].args = frame[u].args
  /\ frame[t].kw0 = frame[u].kw0 /\ frame[t].pid = frame[u].pid

\* C3: two constructions of one class with equal args and options on two
\* different threads of one process never return the same handle, under
\* every interleaving: each thread gets a handle constructed on that thread
\* in that process.
C3_ThreadsGetOwnHandles ==
  \A t \in Threads : \A u \in Threads \ {t} :
    (Returned(t) /\ Returned(u) /\ SameRequest(t, u))
      => /\ frame[t].ret # frame[u].ret
         /\ handles[frame[t].ret].born_tid = t
         /\ handles[frame[t].ret].born_pid = frame[t].pid

\* both threads have returned from the same cachable request, and each
\* handle is cached under its thread's token
C3_Witness ==
  /\ \A t \in Threads : Returned(t) /\ cachable(frame[t].cls) /\ ~frame[t].skip
  /\ SameRequest(1, 2)
  /\ \A t \in Threads :
       /\ frame[t].token \in DOMAIN _cache[frame[t].cls]
       /\ _cache[frame[t].cls][frame[t].token] = frame[t].ret

\* ===================================================================
\* Claims about transactions and cache invalidation (TxSpec)
\* ===================================================================
pending == _invalidated_caches_in_transaction
StagedFiles(tr) == IF tr = NoTransaction THEN <<>> ELSE tr.files
IsPrefix(s, t) == Len(s) <= Len(t) /\ SubSeq(t, 1, Len(s)) = s
\* the directory cache holds nothing for path (nothing at all, for None)
Dropped(path) == IF path = None THEN dircache = EmptyDict ELSE path \notin DOMAIN dircache

\* C6: in a transaction, open() in a write mode without an autocommit
\* argument gives a file with autocommit false and appends it to the end of
\* the transaction's file list, and closing a file whose autocommit is false
\* does not commit it; open() in read mode appends nothing; outside a
\* transaction the default is autocommit true and nothing is appended.
C6_OpenStagesInTransaction ==
  [][ /\ txlast'.op = "open" =>
           LET f == txlast'.f
               file == files'[f]
               default == txlast'.acarg = "default"
           IN /\ (_intrans /\ file.mode # "rb" /\ default) =>
                    /\ ~file.autocommit
                    /\ StagedFiles(_transaction') = Append(StagedFiles(_transaction), f)
              /\ file.mode = "rb" => _transaction' = _transaction
              /\ (~_intrans /\ default) =>
                    file.autocommit /\ _transaction' = _transaction
      /\ (txlast'.op = "close" /\ ~files[txlast'.f].autocommit) => ~txlast'.committed
    ]_vars

\* a second write-mode file opened in a transaction without an autocommit
\* argument, staged behind the first
C6_Witness ==
  /\ txlast.op = "open" /\ txlast.acarg = "default" /\ _intrans
  /\ files[txlast.f].mode = "wb" /\ ~files[txlast.f].autocommit
  /\ Len(StagedFiles(_transaction)) >= 2
  /\ StagedFiles(_transaction)[Len(StagedFiles(_transaction))] = txlast.f

\* C7: in a transaction, invalidate_cache(path) appends path to the pending
\* invalidations and leaves the directory cache as it is; the recorded paths
\* stay recorded, in order, until end_transaction.
C7_InvalidationDeferred ==
  [][ /\ (txlast'.op = "invalidate_cache" /\ _intrans) =>
           /\ pending' = Append(pending, txlast'.path)
           /\ dircache' = dircache
      /\ txlast'.op # "end_transaction" => IsPrefix(pending, pending')
    ]_vars

\* a path recorded behind another while the directory cache holds a listing
C7_Witness ==
  /\ txlast.op = "invalidate_cache" /\ _intrans
  /\ Len(pending) >= 2 /\ pending[Len(pending)] = txlast.path
  /\ dircache # EmptyDict

C9_FailedCommitStillDrains ==
  (txlast.op = "end_transaction" /\ txlast.raised # 0)
    => /\ ~_intrans
       /\ pending = <<>>
       /\ \A i \in 1..Len(txlast.recorded) : Dropped(txlast.recorded[i])

\* C10: invalidate_cache(None) outside a transaction leaves the directory
\* cache without entries.
C10_InvalidateAllEmptiesCache ==
  (txlast.op = "invalidate_cache" /\ txlast.path = None /\ ~_intrans)
    => dircache = EmptyDict

\* the directory cache dc holds nothing for path
DroppedFrom(dc, path) == path \notin DOMAIN dc
\* the last operation was applied to write-mode file f, open until then
OnOpenWriteFile(f) == ~files[f].closed /\ files[f].mode # "rb"

\* C11: closing a write-mode file whose final flush succeeds invalidates its
\* own path and its parent path, once each: outside a transaction neither
\* path has an entry in the directory cache after the close; in a
\* transaction both are appended to the pending invalidations and the
\* directory cache is left as it is.
C11_WriteCloseInvalidates ==
  [][ (/\ txlast'.op = "close" /\ txlast'.raised = 0
       /\ OnOpenWriteFile(txlast'.f)) =>
        LET path == files[txlast'.f].path
        IN IF _intrans
           THEN /\ pending' = pending \o <<path, _parent(path)>>
                /\ dircache' = dircache
           ELSE /\ pending' = pending
                /\ DroppedFrom(dircache', path)
                /\ DroppedFrom(dircache', _parent(path))
    ]_vars

\* ===================================================================
\* Claims about buffered files (FileSpec, TxSpec)
\* ===================================================================
\* the last operation was applied to a write-mode file already force-flushed
OnForcedFile(f) == files[f].forced /\ files[f].mode # "rb"

\* C12 (as claimed): after flush(force=True) on a write-mode file, every
\* write() raises and leaves buffer, loc and offset as they were, and no
\* operation other than close is accepted any more.
C12_OnlyCloseAfterForce ==
  [][ (txlast'.op \in {"write", "flush", "seek", "read"}
       /\ OnForcedFile(txlast'.f)) =>
        /\ txlast'.raised # 0
        /\ txlast'.op = "write" => files' = files
    ]_vars

\* C12 (amended): after flush(force=True) on a write-mode file, every write()
\* raises and leaves buffer, loc and offset as they were, and so do a second
\* flush(force=True), seek and read, none of them reaching the backend;
\* close is still accepted, and so is flush(force=False) while the file is
\* not closed (it raises only if the backend does).
C12_NoWriteAfterForce ==
  [][ (txlast'.op \in {"write", "flush", "seek", "read", "close"}
       /\ OnForcedFile(txlast'.f)) =>
        /\ (\/ txlast'.op \in {"write", "seek", "read"}
            \/ txlast'.op = "flush" /\ txlast'.force) =>
              /\ txlast'.raised # 0
              /\ txlast'.calls = <<>>
              /\ files' = files
        /\ (txlast'.op = "flush" /\ ~txlast'.force /\ ~files[txlast'.f].closed) =>
              (txlast'.raised # 0 => txlast'.calls # <<>>)
        /\ txlast'.op = "close" =>
              /\ txlast'.raised = 0
              /\ txlast'.calls = <<>>
              /\ files'[txlast'.f].closed
    ]_vars

\* a write() that raised on an open write-mode file: it had been
\* force-flushed, and its buffer still holds what the backend did not take
C12_Witness ==
  /\ txlast.op = "write" /\ txlast.raised # 0
  /\ files[txlast.f].mode = "wb" /\ ~files[txlast.f].closed
  /\ files[txlast.f].forced
  /\ files[txlast.f].buffer # <<>>

\* C13: for a 'wb' file, the bytes of the chunks the backend took, in call
\* order, followed by the bytes still in the buffer are the bytes written, in
\* order; once the file is closed and the backend took every chunk, the bytes
\* the backend holds are exactly the bytes written.
C13_UploadedIsWritten ==
  \A f \in 1..Len(files) :
    files[f].mode = "wb" =>
      /\ files[f].uploaded \o files[f].buffer = files[f].written
      /\ files[f].loc = Len(files[f].written)
      /\ (files[f].closed /\ ~files[f].refused) =>
            files[f].uploaded = files[f].written

\* two writes, the first uploaded as a full block, the second with the
\* final chunk of close()
C13_Witness ==
  /\ txlast.op = "close" /\ txlast.raised = 0
  /\ files[txlast.f].mode = "wb" /\ files[txlast.f].closed
  /\ ~files[txlast.f].refused
  /\ files[txlast.f].written = <<2, 3, 1>>
  /\ files[txlast.f].uploaded = <<2, 3, 1>>
  /\ txlast.calls = << <<"_upload_chunk", <<1>>, TRUE>> >>

\* C14: close() on a file that is already closed (read or write mode)
\* returns without error, makes no backend call and issues no cache
\* invalidation.
C14_CloseIdempotent ==
  [][ (txlast'.op = "close" /\ files[txlast'.f].closed) =>
        /\ txlast'.raised = 0
        /\ txlast'.calls = <<>>
        /\ ~txlast'.committed
        /\ files' = files
        /\ pending' = pending
        /\ dircache' = dircache
    ]_vars

\* a second close() of a write-mode file in a transaction, with the
\* invalidations of the first close pending
C14_Witness ==
  /\ txlast.op = "close" /\ txlast.was_closed
  /\ files[txlast.f].mode = "wb" /\ files[txlast.f].closed
  /\ _intrans
  /\ pending = <<files[txlast.f].path, _parent(files[txlast.f].path)>>

\* C15: a closed file stays closed, and every read, write, flush and seek on
\* a closed file raises and leaves loc, buffer and offset as they were.
C15_ClosedIsTerminal ==
  [][ /\ \A f \in 1..Len(files) : files[f].closed => files'[f].closed
      /\ (txlast'.op \in {"read", "write", "flush", "seek"}
          /\ files[txlast'.f].closed) =>
            /\ txlast'.raised # 0
            /\ files' = files
    ]_vars

\* ===================================================================
\* Claims about listing and reading through the handle (PathSpec)
\* ===================================================================
Ascending(r) == \A i \in 1..Len(r) : \A j \in (i + 1)..Len(r) : StrLess(r[i], r[j])
\* what find(q) has to return for the tree
FindsSubtree(tree, q, r) ==
  /\ IsFileIn(tree, q) => r = <<q>>
  /\ IsDirIn(tree, q) =>
       /\ Range(r) = Below(tree, q)
       /\ Ascending(r)
       /\ \A i \in 1..Len(r) : startswith(r[i], q)
  /\ (tree = {FileC, FileD, FileE} /\ q = DirA) => r = <<FileC, FileD, FileE>>

\* C16 (as claimed): find(p) with maxdepth=None returns [p] if p is a file,
\* and if p is a directory the names of all files below p, ascending and
\* without duplicates, each with p as a prefix.
C16_FindOfPath ==
  txlast.op = "find" =>
    /\ isfile(txlast.tree, txlast.lsfile, txlast.arg) => txlast.ret = <<txlast.arg>>
    /\ isdir(txlast.tree, txlast.lsfile, txlast.arg) =>
         /\ Range(txlast.ret) = Below(txlast.tree, _strip_protocol(txlast.arg))
         /\ Ascending(txlast.ret)
         /\ \A i \in 1..Len(txlast.ret) : startswith(txlast.ret[i], txlast.arg)

\* C16 (amended): with q the path p without its protocol prefix and trailing
\* "/", find(p) with maxdepth=None returns [q] if q is a file, and if q is a
\* directory the names of all files below q, ascending and without
\* duplicates, each with q as a prefix.
C16_FindOfStrippedPath ==
  txlast.op = "find" =>
    FindsSubtree(txlast.tree, _strip_protocol(txlast.arg), txlast.ret)

\* find("/a") over /a/b/c.txt, /a/b/d.txt, /a/e.txt
C16_Witness ==
  /\ txlast.op = "find" /\ txlast.arg = DirA
  /\ txlast.tree = {FileC, FileD, FileE}
  /\ txlast.ret = <<FileC, FileD, FileE>>

\* the last operation was glob() of a pattern without "*", "?", "[" that
\* does not end in "/"
LiteralGlob ==
  txlast.op = "glob" /\ ~has_magic(txlast.arg) /\ ~endswith(txlast.arg, Slash)

\* C17 (as claimed): for a pattern p without "*", "?", "[" that does not end
\* in "/", glob(p) is [p] if p exists and [] otherwise.
C17_GlobOfLiteral ==
  LiteralGlob =>
    txlast.ret = IF exists(txlast.tree, txlast.lsfile, txlast.arg)
                 THEN <<txlast.arg>> ELSE <<>>

\* C17 (amended): for such a pattern p, with q the path p without its
\* protocol prefix, glob(p) is [q] if q is a file or a directory of the tree
\* and [] otherwise.
C17_GlobOfStrippedLiteral ==
  LiteralGlob =>
    LET q == _strip_protocol(txlast.arg)
    IN txlast.ret = IF IsFileIn(txlast.tree, q) \/ IsDirIn(txlast.tree, q)
                    THEN <<q>> ELSE <<>>

\* glob of the protocol-qualified path of an existing file
C17_Witness ==
  /\ LiteralGlob /\ txlast.arg = Qualified(FileE)
  /\ txlast.ret = <<FileE>>

\* C18: over /a/b/c.txt, /a/b/d.txt, /a/e.txt, glob("/a/**/*.txt") is the
\* three files and glob("/a/*/*.txt") is /a/b/c.txt, /a/b/d.txt.
C18_GlobStarStar ==
  (txlast.op = "glob" /\ txlast.tree = {FileC, FileD, FileE}) =>
    /\ txlast.arg = StarStarTxt => txlast.ret = <<FileC, FileD, FileE>>
    /\ txlast.arg = StarTxt => txlast.ret = <<FileC, FileD>>

\* data[start:end] as Python slices a byte string
PySlice(data, start, end) ==
  LET at(o, none) == IF o = <<>> THEN none
                     ELSE IF o[1] < 0 THEN Max(Len(data) + o[1], 0)
                     ELSE Min(o[1], Len(data))
  IN SubSeq(data, at(start, 0) + 1, at(end, Len(data)))

\* C19: cat_file(path, start, end) returns data[start:end] as Python slices
\* it, for any integers or None as start and end.
C19_CatFileIsSlice ==
  txlast.op = "cat_file" =>
    txlast.ret = PySlice(Content, txlast.arg[1], txlast.arg[2])

\* the sources copy() expanded and the pairs it had to copy
CopyPaths ==
  expand_path(txlast.tree, txlast.lsfile, txlast.arg[1], txlast.arg[2])
CopyPairs ==
  LET paths == CopyPaths.out
      dests == other_paths(paths, PathX)
  IN [ i \in 1..Len(paths) |-> <<paths[i], dests[i]>> ]
NotGone(pair) == pair[1] \notin txlast.gone

\* C20: copy() without on_error behaves as on_error="raise" when recursive
\* is false and as "ignore" when it is true; under "raise" the first
\* not-found failure of cp_file propagates and no later pair is copied;
\* under "ignore" a not-found failure skips that pair only and every other
\* pair is copied.
C20_CopyOnError ==
  (txlast.op = "copy" /\ ~CopyPaths.raised) =>
    LET on_error == IF txlast.arg[3] # "None" THEN txlast.arg[3]
                    ELSE IF txlast.arg[2] THEN "ignore" ELSE "raise"
        failing == {i \in 1..Len(CopyPairs) : ~NotGone(CopyPairs[i])}
        k == CHOOSE i \in failing : \A j \in failing : i <= j
    IN IF on_error = "raise" /\ failing # {}
       THEN /\ txlast.raised # 0
            /\ txlast.calls = SubSeq(CopyPairs, 1, k)
            /\ txlast.ret = SubSeq(CopyPairs, 1, k - 1)
       ELSE /\ txlast.raised = 0
            /\ txlast.calls = CopyPairs
            /\ txlast.ret = SelectSeq(CopyPairs, NotGone)

\* a recursive copy without on_error that went on after a source was not
\* found
C20_Witness ==
  /\ txlast.op = "copy" /\ txlast.arg[2] /\ txlast.arg[3] = "None"
  /\ txlast.raised = 0
  /\ Len(txlast.calls) >= 3
  /\ txlast.calls[1][1] \in txlast.gone
  /\ Len(txlast.ret) = Len(txlast.calls) - 1


\* path c lies beneath path d
Beneath(c, d) == startswith(c, d \o <<Slash>>)
\* the position of path p in the rm_file calls
CallAt(p) == CHOOSE i \in 1..Len(txlast.calls) : txlast.calls[i] = p
\* the paths rm() expanded
RmPathsExpanded ==
  expand_path(txlast.tree, txlast.lsfile, txlast.arg[1], txlast.arg[2])

\* C21: rm(path, recursive=True) calls rm_file on the expanded paths in
\* reverse sorted order: each expanded path is passed to rm_file exactly
\* once, and every expanded path beneath an expanded directory is removed
\* before that directory.
C21_RmChildrenFirst ==
  (txlast.op = "rm" /\ txlast.arg[2] /\ txlast.raised = 0) =>
    LET calls == txlast.calls
        expanded == Range(RmPathsExpanded.out)
    IN /\ \A i, j \in 1..Len(calls) : i < j => StrLess(calls[j], calls[i])
       /\ Range(calls) = expanded
       /\ Len(calls) = Cardinality(expanded)
       /\ \A d, c \in expanded : Beneath(c, d) => CallAt(c) < CallAt(d)

\* a recursive rm of a directory that holds a directory: the inner files go
\* first, then the inner directory, the directory itself last
C21_Witness ==
  /\ txlast.op = "rm" /\ txlast.arg[2] /\ txlast.raised = 0
  /\ Len(txlast.calls) >= 4
  /\ {FileC, DirB, DirA} \subseteq Range(txlast.calls)
  /\ CallAt(FileC) < CallAt(DirB) /\ CallAt(DirB) < CallAt(DirA)
  /\ txlast.calls[Len(txlast.calls)] = DirA

\* the glob matches of the path given to expand_path and, when recursive, its
\* recursive find with the directories
GlobAndFind ==
  Range(glob(txlast.tree, txlast.lsfile, txlast.arg[1]))
    \cup (IF txlast.arg[2]
          THEN Range(find(txlast.tree, txlast.lsfile, txlast.arg[1], <<>>, TRUE))
          ELSE {})

\* C22: expand_path returns, in ascending order and without duplicates, the
\* union of the glob matches of its input and, when recursive, of the
\* recursive find (directories included) of its input; if that union is
\* empty it fails with NotFound instead of returning an empty list.
C22_ExpandIsGlobAndFind ==
  txlast.op = "expand_path" =>
    IF GlobAndFind = {} THEN txlast.raised # 0
    ELSE /\ txlast.raised = 0
         /\ Ascending(txlast.ret)
         /\ Range(txlast.ret) = GlobAndFind

\* C23: for a file of size S, an offset >= 0 and a length >= 0, read_block
\* without a delimiter returns the file's bytes [offset, offset+length) cut
\* at S, which are min(length, max(0, S - offset)) bytes: nothing when the
\* offset is at or beyond S, and never more than length bytes.
C23_ReadBlockIsClampedRange ==
  txlast.op = "read_block" =>
    LET S == Len(Content)
        offset == txlast.arg[1]
        length == txlast.arg[2]
    IN /\ Len(txlast.ret) = Min(length, Max(0, S - offset))
       /\ Len(txlast.ret) <= length
       /\ txlast.ret = [ i \in 1..Len(txlast.ret) |-> Content[offset + i] ]
       /\ offset >= S => txlast.ret = <<>>

\* a read_block from inside the file that asked for more bytes than are left
C23_Witness ==
  /\ txlast.op = "read_block"
  /\ txlast.arg[1] > 0 /\ txlast.arg[1] < Len(Content)
  /\ txlast.arg[1] + txlast.arg[2] > Len(Content)
  /\ txlast.ret = SubSeq(Content, txlast.arg[1] + 1, Len(Content))
  /\ txlast.ret # <<>>

\* C24: for every path p, with or without a protocol prefix, absolute or
\* relative, and every root_marker, parent(p) is root_marker or a prefix of
\* the protocol-stripped p; for p without "/" it is root_marker.
C24_ParentIsPrefixOrRoot ==
  txlast.op = "_parent" =>
    LET marker == txlast.arg
        p == txlast.path
        parent == txlast.ret
    IN /\ parent = marker \/ IsPrefix(parent, _strip_protocol_cls(marker, p))
       /\ Slash \notin Chars(p) => parent = marker

\* C25: once a write-mode file has been force-flushed, no further upload
\* reaches the backend, whatever the final _upload_chunk returned: a second
\* flush(force=True) raises, and flush(force=False) is a no-op that calls
\* neither _initiate_upload nor _upload_chunk and leaves buffer and offset as
\* they were.
C25_NoUploadAfterForce ==
  [][ (txlast'.op = "flush" /\ OnForcedFile(txlast'.f)
       /\ ~files[txlast'.f].closed) =>
        /\ txlast'.calls = <<>>
        /\ files'[txlast'.f].buffer = files[txlast'.f].buffer
        /\ files'[txlast'.f].offset = files[txlast'.f].offset
        /\ IF txlast'.force THEN txlast'.raised # 0 ELSE txlast'.raised = 0
    ]_vars

\* the positions of the calls of a backend primitive among the calls made
Called(calls, name) == {i \in 1..Len(calls) : calls[i][1] = name}

\* C26: on a write-mode file _initiate_upload is called at most once and
\* before the first _upload_chunk; _upload_chunk is never called on a file
\* whose _initiate_upload has not returned normally; and offset is None
\* exactly as long as no flush has gone to the backend.
C26_InitiateOnceBeforeChunks ==
  [][ txlast'.op \in {"write", "flush", "close"} =>
        LET f == txlast'.f
            inits == Called(txlast'.calls, "_initiate_upload")
            chunks == Called(txlast'.calls, "_upload_chunk")
        IN /\ Cardinality(inits) <= 1
           /\ inits # {} => files[f].initiated = 0
           /\ files'[f].initiated <= 1
           /\ \A i \in inits, j \in chunks : i < j
           /\ chunks # {} => (files[f].initiated = 1 \/ inits # {})
           /\ chunks # {} => ~files[f].closed
           /\ (inits # {} /\ chunks = {}) =>
                (txlast'.raised # 0 /\ files'[f].closed)
           /\ files[f].closed => files'[f].closed
           /\ (files'[f].offset = -1) <=> (files'[f].initiated = 0)
           /\ (files'[f].offset = -1) <=>
                (files[f].offset = -1 /\ inits = {} /\ chunks = {})
    ]_vars

\* a later flush of a file whose upload was initiated by an earlier one: it
\* uploads its chunk without initiating again
C26_Witness ==
  /\ txlast.op \in {"write", "flush"} /\ txlast.raised = 0
  /\ Called(txlast.calls, "_initiate_upload") = {}
  /\ Called(txlast.calls, "_upload_chunk") # {}
  /\ files[txlast.f].initiated = 1 /\ ~files[txlast.f].closed
  /\ files[txlast.f].offset = 3

\* C27: on a write-mode file with a backend that accepts chunks, after every
\* write() that returns the buffer holds fewer than blocksize bytes: a write
\* that brings the buffer to blocksize or more uploads the whole buffer as
\* one non-final chunk and resets it, and a flush(force=False) on a buffer
\* below blocksize makes no backend call and changes no state.
C27_BufferBelowBlocksize ==
  [][ LET f == txlast'.f
      IN /\ (txlast'.op = "write" /\ txlast'.raised = 0
             /\ ~files[f].refused /\ ~files'[f].refused) =>
              LET whole == files[f].buffer \o
                             SubSeq(files'[f].written, Len(files[f].written) + 1,
                                    Len(files'[f].written))
              IN /\ Len(files'[f].buffer) < files'[f].blocksize
                 /\ IF Len(whole) >= files[f].blocksize
                    THEN /\ Called(txlast'.calls, "_upload_chunk") = {Len(txlast'.calls)}
                         /\ txlast'.calls[Len(txlast'.calls)] =
                              <<"_upload_chunk", whole, FALSE>>
                         /\ files'[f].buffer = <<>>
                    ELSE /\ txlast'.calls = <<>>
                         /\ files'[f].buffer = whole
         /\ (txlast'.op = "flush" /\ ~txlast'.force /\ files[f].mode = "wb"
             /\ ~files[f].closed
             /\ Len(files[f].buffer) < files[f].blocksize) =>
              /\ txlast'.raised = 0
              /\ txlast'.calls = <<>>
              /\ files' = files
    ]_vars

\* a write that filled the buffer past the block size: one non-final chunk
\* with the whole buffer went to the backend
C27_Witness ==
  /\ txlast.op = "write" /\ txlast.raised = 0
  /\ ~files[txlast.f].refused
  /\ files[txlast.f].written = <<1, 2, 3>>
  /\ txlast.calls = << <<"_initiate_upload">>, <<"_upload_chunk", <<1, 2, 3>>, FALSE>> >>
  /\ files[txlast.f].buffer = <<>>

\* C28: end_transaction terminates: when Transaction.complete has returned
\* it calls invalidate_cache once for each entry of the pending
\* invalidations, in order, none of these calls queues a path again, and it
\* returns with the pending invalidations empty and in_transaction false.
C28_DrainTerminates ==
  [][ (txlast'.op = "end_transaction" /\ txlast'.raised = 0) =>
        /\ txlast'.ret # <<"loops">>
        /\ txlast'.calls = pending
        /\ Len(Drain(_intrans', pending, 1, <<>>).pending) = Len(pending)
        /\ pending' = <<>>
        /\ ~_intrans'
    ]_vars

\* an end_transaction that drained two recorded paths
C28_Witness ==
  /\ txlast.op = "end_transaction" /\ txlast.raised = 0
  /\ Len(txlast.calls) >= 2
  /\ txlast.calls[1] # txlast.calls[2]
  /\ pending = <<>> /\ ~_intrans

\* C29: walk(path) on a path whose listing fails with NotFound yields
\* exactly one triple, the empty triple (path, {}, {}), and ends without
\* raising.
C29_WalkOfMissingYieldsEmptyTriple ==
  (/\ txlast.op = "walk"
   /\ ls(txlast.tree, txlast.lsfile, _strip_protocol(txlast.arg)).raised) =>
      /\ txlast.raised = 0
      /\ txlast.ret[1] = { <<_strip_protocol(txlast.arg), {}, {}>> }

\* s matches the pattern with every "?" and every single "*" on characters
\* other than the separator
RECURSIVE MatchOffSeparators(_, _)
MatchOffSeparators(re, s) ==
  IF re = <<>> THEN s = <<>>
  ELSE IF re[1][1] = "lit"
  THEN s # <<>> /\ s[1] = re[1][2] /\ MatchOffSeparators(Tail(re), Tail(s))
  ELSE IF re[1][1] = "any"
  THEN s # <<>> /\ s[1] # Slash /\ MatchOffSeparators(Tail(re), Tail(s))
  ELSE IF re[1][1] = "seg"
  THEN \/ MatchOffSeparators(Tail(re), s)
       \/ s # <<>> /\ s[1] # Slash /\ MatchOffSeparators(re, Tail(s))
  ELSE \/ MatchOffSeparators(Tail(re), s)
       \/ s # <<>> /\ MatchOffSeparators(re, Tail(s))

\* C30: in glob patterns "?" matches exactly one character that is not "/"
\* and a single "*" a run of characters that are not "/"; only "**" matches
\* across "/": no path glob returns has a "/" where "?" or a single "*"
\* matched.
C30_QuestionOffSeparator ==
  (txlast.op = "glob" /\ has_magic(txlast.arg)) =>
    LET pattern == rstrip(replace_dslash(_strip_protocol(txlast.arg)), Slash)
    IN \A i \in 1..Len(txlast.ret) :
         MatchOffSeparators(Regex(pattern),
                            rstrip(replace_dslash(txlast.ret[i]), Slash))

\* the bytes of data from position p up to and including the first
\* occurrence of delim at or after p, all the bytes from p on if there is none
UpToDelimiter(data, p, delim) ==
  LET rest == SubSeq(data, p + 1, Len(data))
      found == bytes_find(rest, delim)
  IN IF found < 0 THEN rest ELSE SubSeq(rest, 1, found + Len(delim))

\* C31: readuntil(delim) on a read-mode file at position p returns the
\* file's bytes from p up to and including the first occurrence of delim at
\* or after p, or all the remaining bytes if delim does not occur, and leaves
\* loc just past the bytes returned, for delimiters of any length and any
\* block size, also when the delimiter lies across two blocks read.
C31_ReadUntilDelimiter ==
  [][ (txlast'.op = "readuntil" /\ txlast'.raised = 0) =>
        LET f == txlast'.f
            p == files[f].loc
        IN /\ txlast'.ret = UpToDelimiter(Content, p, txlast'.arg[1])
           /\ files'[f].loc = p + Len(txlast'.ret)
    ]_vars

\* C32: mv(path1, path2) makes all its copies before any removal: rm_file is
\* called on a source only after copy has returned, and if copy raises no
\* source is removed.
C32_MvCopiesThenRemoves ==
  txlast.op = "mv" =>
    LET cps == Called(txlast.calls, "cp_file")
        rms == Called(txlast.calls, "rm_file")
        copy_raised == \E i \in cps : /\ txlast.calls[i][2] \in txlast.gone
                                      /\ ~txlast.arg[2]
    IN /\ \A i \in cps, j \in rms : i < j
       /\ copy_raised => (rms = {} /\ txlast.raised # 0)
       /\ txlast.raised # 0 => rms = {}

\* a recursive mv of a directory: its files and directories were copied,
\* then removed
C32_Witness ==
  /\ txlast.op = "mv" /\ txlast.raised = 0 /\ txlast.arg[2]
  /\ Cardinality(Called(txlast.calls, "cp_file")) >= 3
  /\ Cardinality(Called(txlast.calls, "rm_file")) >= 3
  /\ txlast.calls[1][1] = "cp_file"
  /\ txlast.calls[Len(txlast.calls)] = <<"rm_file", DirA>>

\* C35: after mv(path1, path2), with any recursive setting and the default
\* on_error, every source that was removed had been copied by cp_file to its
\* target: a source whose cp_file failed is never removed.
C35_RemovedWasCopied ==
  txlast.op = "mv" =>
    \A j \in Called(txlast.calls, "rm_file") :
      /\ txlast.calls[j][2] \notin txlast.gone
      /\ \E i \in 1..Len(txlast.ret) : txlast.ret[i][1] = txlast.calls[j][2]

\* C33: a write-mode file is closed only after _upload_chunk(final=True) has
\* returned without error for it: a close() whose final flush raised, in
\* _initiate_upload or in _upload_chunk, never leaves the file closed with
\* bytes written but not uploaded, also when close() is called again.
C33_ClosedOnlyAfterFinalChunk ==
  [][ LET f == txlast'.f
      IN (/\ txlast'.op \in {"write", "flush", "close"}
          /\ files[f].mode # "rb"
          /\ files'[f].closed /\ ~files[f].closed) =>
           /\ txlast'.raised = 0
           /\ ~(/\ txlast.op = "close" /\ txlast.f = f /\ txlast.raised # 0
                /\ files'[f].buffer # <<>>)
    ]_vars


\* the commit and discard calls an operation made on file f
EventsOn(events, f) == {i \in 1..Len(events) : events[i][2] = f}

\* C34: every write-mode file staged in a transaction's file list is
\* committed or discarded exactly once by the time in_transaction next
\* becomes false, also when start_transaction is called while a transaction
\* is active: a staged file leaves the list only by one commit or discard.
C34_StagedCommittedOrDiscardedOnce ==
  [][ \A f \in Range(StagedFiles(_transaction)) :
        /\ Cardinality(EventsOn(txlast'.events, f)) <= 1
        /\ \/ f \in Range(StagedFiles(_transaction'))
           \/ Cardinality(EventsOn(txlast'.events, f)) = 1
        /\ (_intrans /\ ~_intrans') =>
             Cardinality(EventsOn(txlast'.events, f)) = 1
    ]_vars

\* C36: in mode 'wb', after every write, flush and close, also those in
\* which _upload_chunk returns False or raises, loc is the number of bytes
\* uploaded (offset, 0 while the upload is not initiated) plus the number of
\* bytes in the buffer.
C36_LocIsOffsetPlusBuffer ==
  \A f \in 1..Len(files) :
    files[f].mode = "wb" =>
      files[f].loc = (IF files[f].offset = -1 THEN 0 ELSE files[f].offset)
                       + Len(files[f].buffer)

\* a write after a block went to the backend and after the backend did not
\* take another: bytes uploaded and bytes buffered
C36_Witness ==
  /\ txlast.op = "write" /\ txlast.raised = 0
  /\ files[txlast.f].mode = "wb"
  /\ files[txlast.f].offset = 2
  /\ files[txlast.f].buffer = <<1>>
  /\ files[txlast.f].loc = 3

\* C37: the file list of the handle's transaction is non-empty only while
\* in_transaction is true; an open while no transaction is active, with any
\* mode and any autocommit argument, stages nothing.
C37_StagedOnlyInTransaction ==
  StagedFiles(_transaction) # <<>> => _intrans

\* C38: every path returned by expand_path exists in the tree of the call,
\* for recursive true and false and for literal and glob inputs, and rm
\* calls rm_file only on paths that exist.
C38_ExpandedPathsExist ==
  /\ (txlast.op \in {"expand_path", "rm"} /\ txlast.raised = 0) =>
       \A i \in 1..Len(txlast.ret) :
         exists(txlast.tree, txlast.lsfile, txlast.ret[i])
  /\ txlast.op = "rm" =>
       \A i \in 1..Len(txlast.calls) :
         exists(txlast.tree, txlast.lsfile, txlast.calls[i])
====
